---- MODULE Spec2Model ----
(***************************************************************************)
(* LadChat server: the embedding-backed recommendation engine              *)
(* (server/ai/rag_engine.py, chroma_client.py, embedding_tasks.py), the    *)
(* embedding writers in server/routes and the friendship routes it reads.  *)
(*                                                                         *)
(* Vectors are points on a line; the index distance is the squared L2      *)
(* distance (the default space of a Chroma collection), kept in tenths:    *)
(* a distance of 1 stands for 0.1, a similarity score of 9 for 0.9.        *)
(* Time is in hours.                                                       *)
(***************************************************************************)
EXTENDS Integers, Sequences, FiniteSets, TLC

\* ---------------------------------------------------------------- bounds
NumUsers == 3
NumEvents == 2
NumGroups == 1
MaxLimit == 2
MaxServed == 2
MaxInFlight == 2

\* ------------------------------------------------------ program constants
OverFetch == 3
TTLHours == 24
MaxActiveEvents == 3
ExpiryHours == 1
One == 10

UserIds == 1..NumUsers
EventIds == 1..NumEvents
GroupIds == 1..NumGroups
NoTime == -1
Vecs == {0, 4}
Limits == 1..MaxLimit

NoRow == [none |-> TRUE]
NoDistance == -1
NoCall == [op |-> "none"]
Idle == [op |-> "idle"]
Slots == 1..MaxInFlight

VARIABLES
    users,              \* users table: id -> row or NoRow
    friendships,        \* friendships table: set of rows
    friend_requests,    \* friend_requests table: set of rows
    user_embeddings,    \* user_embeddings table: user id -> its rows
    users_collection,   \* Chroma "users" collection: set of entries
    events,             \* events table: id -> row or NoRow
    event_embeddings,   \* event_embeddings table
    events_collection,  \* Chroma "events" collection
    groups,             \* group_chats table: id -> row
    group_embeddings,   \* group_embeddings table
    groups_collection,  \* Chroma "groups" collection
    now,                \* wall clock, hours
    served,             \* number of requests and sweep iterations begun
    inflight,           \* calls suspended in the embedder: slot -> call or Idle
    last                \* the call that has just completed and what it did

vars == <<users, friendships, friend_requests, user_embeddings,
          users_collection, events, event_embeddings, events_collection,
          groups, group_embeddings, groups_collection, now, served, inflight,
          last>>

friendVars == <<friendships, friend_requests>>
eventVars == <<events, event_embeddings, events_collection>>
groupVars == <<groups, group_embeddings, groups_collection>>

\* ------------------------------------------------------------ sequences
Range(s) == {s[i] : i \in DOMAIN s}

Prefix(s, n) == [i \in 1..(IF n < Len(s) THEN n ELSE Len(s)) |-> s[i]]

Min(a, b) == IF a < b THEN a ELSE b

\* all orderings of the finite set S
Orderings(S) ==
    {f \in [1..Cardinality(S) -> S] : \A i, j \in 1..Cardinality(S) : i # j => f[i] # f[j]}

NextId(rows) == IF rows = {} THEN 1
                ELSE 1 + (CHOOSE m \in {r.id : r \in rows} : \A r \in rows : r.id <= m)

\* ------------------------------------------------------------ the index
\* squared L2 distance between two stored vectors, in tenths
Distance(q, v) == (q - v) * (q - v)

\* collection.add in place of collection.upsert: an entry already there stays
ChromaUpsert_add(collection, id, embedding) ==
    collection \cup {[id |-> id, embedding |-> embedding]}

\* a write that replaced the collection by the one entry
ChromaUpsert_only(collection, id, embedding) ==
    {[id |-> id, embedding |-> embedding]}

\* collection.upsert(ids=["<type>_<id>"], ...): one entry per id, the new one
ChromaUpsert(collection, id, embedding) ==
    {e \in collection : e.id # id} \cup {[id |-> id, embedding |-> embedding]}

\* what collection.query may return: the n nearest entries that pass the
\* where-filter, nearest first; entries at the same distance in any order
ChromaQuery(collection, q, n, allowed) ==
    LET matching == {e \in collection : e.id \in allowed}
        ranked == {s \in Orderings(matching) :
                     \A i, j \in 1..Len(s) :
                        i < j => Distance(q, s[i].embedding) <= Distance(q, s[j].embedding)}
    IN  {Prefix(s, n) : s \in ranked}

\* ChromaClient.query_similar_users: the where-filter is $nin exclude_user_ids;
\* a query that raises is logged and gives []
query_similar_users(collection, q, n_results, exclude_user_ids, query_fails, dist_missing) ==
    IF query_fails THEN {<<>>}
    ELSE {[i \in DOMAIN s |->
             [user_id  |-> s[i].id,
              distance |-> IF dist_missing THEN NoDistance
                           ELSE Distance(q, s[i].embedding)]] :
          s \in ChromaQuery(collection, q, n_results, UserIds \ exclude_user_ids)}

\* ----------------------------------------------------- friendship graph
FriendsOf(u) ==
    {IF f.user1_id = u THEN f.user2_id ELSE f.user1_id :
        f \in {g \in friendships : g.user1_id = u \/ g.user2_id = u}}

RequestOthers(u) ==
    {IF r.sender_id = u THEN r.recipient_id ELSE r.sender_id :
        r \in {q \in friend_requests : q.sender_id = u \/ q.recipient_id = u}}

\* RAGRecommendationEngine._get_excluded_user_ids: a failing lookup is
\* logged and gives []
_get_excluded_user_ids(user_id, lookup_fails) ==
    IF lookup_fails THEN {} ELSE FriendsOf(user_id) \cup RequestOthers(user_id)

_get_mutual_friends_count(user1_id, user2_id) ==
    Cardinality(FriendsOf(user1_id) \cap FriendsOf(user2_id))

\* the n_results of the index queries one call of recommend_friends issues,
\* were it to query again with a larger k while short of limit
IndexRequests_retry(limit) ==
    <<limit * OverFetch, limit * OverFetch * 2, limit * OverFetch * 3,
      limit * OverFetch * 4>>

\* the n_results of the index queries one call of recommend_friends issues:
\* a single query_similar_users(n_results=limit * 3)
IndexRequests(limit) == <<limit * OverFetch>>

\* a single query_similar_events(n_results=limit)
EventIndexRequests(limit) == <<limit>>

\* similarity_score = 1.0 - distance
SimilarityScore(distance) == One - distance

UserDetail_any(id) == users[id] # NoRow

\* the re-validation query of the formatting loop
UserDetail(id) ==
    users[id] # NoRow /\ users[id].is_active /\ users[id].open_to_friends

\* the formatting loop, were it to hand back the least similar first
FormatFriends_ascending(user_id, similar_users, limit, exclude_user_ids) ==
    LET shown == Prefix(similar_users, limit)
        kept  == SelectSeq(shown, LAMBDA c :
                     UserDetail(c.user_id) /\ c.user_id \notin exclude_user_ids)
    IN  IF \E i \in DOMAIN kept : kept[i].distance = NoDistance
        THEN [outcome |-> "raised", result |-> <<>>]
        ELSE [outcome |-> "returned",
              result  |-> [i \in DOMAIN kept |->
                 [user_id |-> kept[Len(kept) + 1 - i].user_id,
                  similarity_score |-> SimilarityScore(kept[Len(kept) + 1 - i].distance),
                  mutual_friends_count |->
                      _get_mutual_friends_count(user_id, kept[Len(kept) + 1 - i].user_id)]]]

\* the formatting loop of recommend_friends over similar_users[:limit]
FormatFriends(user_id, similar_users, limit, exclude_user_ids) ==
    LET shown == Prefix(similar_users, limit)
        kept  == SelectSeq(shown, LAMBDA c :
                     UserDetail(c.user_id) /\ c.user_id \notin exclude_user_ids)
    IN  IF \E i \in DOMAIN kept : kept[i].distance = NoDistance
        THEN [outcome |-> "raised", result |-> <<>>]
        ELSE [outcome |-> "returned",
              result  |-> [i \in DOMAIN kept |->
                 [user_id |-> kept[i].user_id,
                  similarity_score |-> SimilarityScore(kept[i].distance),
                  mutual_friends_count |->
                      _get_mutual_friends_count(user_id, kept[i].user_id)]]]

\* a recommender without its except clause
FailSoft_reraise(o) ==
    [outcome |-> o.outcome, result |-> o.result, db_closed |-> o.outcome # "raised"]

\* the end of a recommender: db.close() and the return of the list after the
\* formatting loop, or the except clause: log and return [], without a close
FailSoft(o) ==
    IF o.outcome = "raised"
    THEN [outcome |-> "returned", result |-> <<>>, db_closed |-> FALSE]
    ELSE [outcome |-> o.outcome, result |-> o.result, db_closed |-> TRUE]

\* ------------------------------------------------- the durable store
\* an embeddings table maps an entity id to the rows that carry it, oldest
\* first; a row is the vector and its last_updated (created_at for an event)

\* the column is declared without unique=True
UniqueKey_off(rows) == TRUE

\* user_id, group_id and event_id are unique=True: a commit that would leave
\* two rows for one entity raises IntegrityError
UniqueKey(rows) == \A k \in DOMAIN rows : Len(rows[k]) <= 1

\* db.add(UserEmbedding(user_id, profile_embedding)); last_updated defaults to now()
AddEmbedding(rows, id, embedding) ==
    [rows EXCEPT ![id] = Append(@, [embedding |-> embedding, last_updated |-> now])]

\* existing.profile_embedding = ...; existing.last_updated = now(), where
\* existing is what .first() gave: the oldest row of the entity
SetEmbedding(rows, id, embedding) ==
    [rows EXCEPT ![id] =
        <<[embedding |-> embedding, last_updated |-> now]>> \o Tail(@)]

\* db.commit() of the pending rows
CommitOk(pending, commit_fails) == ~commit_fails /\ UniqueKey(pending)

WriteStoreFirst_unsaved(rows, collection, pending, id, embedding, commit_fails, index_fails) ==
    [rows |-> rows, collection |-> collection, outcome |-> "written"]

\* a writer that commits the row and then writes the index entry
WriteStoreFirst(rows, collection, pending, id, embedding, commit_fails, index_fails) ==
    IF CommitOk(pending, commit_fails)
    THEN [rows |-> pending,
          collection |-> IF index_fails THEN collection
                         ELSE ChromaUpsert(collection, id, embedding),
          outcome |-> IF index_fails THEN "store_only" ELSE "written"]
    ELSE [rows |-> rows, collection |-> collection,
          outcome |-> IF commit_fails THEN "commit_failed" ELSE "integrity_error"]

\* a sweep that gave up the row when the index write failed
WriteIndexFirst_abort(rows, collection, pending, id, embedding, commit_fails, index_fails) ==
    IF index_fails
    THEN [rows |-> rows, collection |-> collection, outcome |-> "store_only"]
    ELSE IF CommitOk(pending, commit_fails)
    THEN [rows |-> pending, collection |-> ChromaUpsert(collection, id, embedding),
          outcome |-> "written"]
    ELSE [rows |-> rows, collection |-> ChromaUpsert(collection, id, embedding),
          outcome |-> "index_only"]

\* a writer that writes the index entry and then commits the row; a failed
\* commit is rolled back
WriteIndexFirst(rows, collection, pending, id, embedding, commit_fails, index_fails) ==
    LET written == IF index_fails THEN collection
                   ELSE ChromaUpsert(collection, id, embedding)
    IN  IF CommitOk(pending, commit_fails)
        THEN [rows |-> pending, collection |-> written,
              outcome |-> IF index_fails THEN "store_only" ELSE "written"]
        ELSE [rows |-> rows, collection |-> written,
              outcome |-> IF index_fails
                          THEN (IF commit_fails THEN "commit_failed" ELSE "integrity_error")
                          ELSE "index_only"]

\* the entries of a collection for one entity
EntriesOf(collection, id) == {e \in collection : e.id = id}

\* whether the store and the index hold exactly this vector for the entity
Holds(rows, collection, id, embedding) ==
    /\ Len(rows[id]) = 1
    /\ rows[id][1].embedding = embedding
    /\ EntriesOf(collection, id) = {[id |-> id, embedding |-> embedding]}

\* what a writer that had the vector in hand did
Wrote(op, id, embedding, outcome, again) ==
    IF outcome \in {"commit_failed", "integrity_error"}
    THEN [op |-> op, id |-> id, outcome |-> outcome]
    ELSE [op |-> op, id |-> id, embedding |-> embedding, outcome |-> outcome,
          again |-> again]

\* a writer whose embedder call gave no vector
NoVector(op, id) == [op |-> op, id |-> id, outcome |-> "no_vector"]

\* what may go wrong in one write: nothing, or one of the faults considered
OneOf(faults) == {"none"} \cup faults

FreeSlot == CHOOSE s \in Slots : inflight[s] = Idle /\ \A t \in Slots : t < s => inflight[t] # Idle

HasFreeSlot == \E s \in Slots : inflight[s] = Idle

\* ------------------------------------------------------- models/hangout.py
\* Event.__init__ and the column defaults: expires_at is end_time plus 1 hour
NewEvent(creator_id, visibility, end_time, rsvp_deadline, max_attendees) ==
    [creator_id |-> creator_id, is_active |-> TRUE, visibility |-> visibility,
     end_time |-> end_time, expires_at |-> end_time + ExpiryHours,
     rsvp_deadline |-> rsvp_deadline, max_attendees |-> max_attendees,
     rsvps |-> <<>>, attendee_count |-> 0, maybe_count |-> 0, declined_count |-> 0]

\* a group chat created at time 0 in which no message was sent
NewGroup == [is_active |-> TRUE, created_at |-> 0]

\* Event.is_expired
is_expired(event) == now > event.expires_at

\* Event.get_user_rsvp: the first RSVP of the user, or none
UserRsvps(event, user_id) == SelectSeq(event.rsvps, LAMBDA r : r.user_id = user_id)

\* Event.can_rsvp
can_rsvp(event, user_id) ==
    IF ~event.is_active \/ is_expired(event) THEN FALSE
    ELSE IF now > event.end_time THEN FALSE
    ELSE IF event.rsvp_deadline # NoTime /\ now > event.rsvp_deadline THEN FALSE
    ELSE IF event.max_attendees # 0 /\ event.attendee_count >= event.max_attendees
         THEN UserRsvps(event, user_id) # <<>>
    ELSE TRUE

\* ChromaClient.query_similar_events: the where-filter is $in event_ids
query_similar_events(collection, q, n_results, event_ids, query_fails, dist_missing) ==
    IF query_fails THEN {<<>>}
    ELSE {[i \in DOMAIN s |->
             [event_id |-> s[i].id,
              distance |-> IF dist_missing THEN NoDistance
                           ELSE Distance(q, s[i].embedding)]] :
          s \in ChromaQuery(collection, q, n_results, event_ids)}

\* ------------------------------------------------------ ai/rag_engine.py
Returned(op, id, limit, o, faults, queries, retrieved) ==
    [op |-> op, id |-> id, limit |-> limit, outcome |-> o.outcome,
     result |-> o.result, faults |-> faults, queries |-> queries,
     retrieved |-> retrieved, db_closed |-> o.db_closed]

\* "return []" before the formatting loop, from the body or from the except
\* clause: the session made by SessionLocal() is left as it is
Empty == [outcome |-> "returned", result |-> <<>>, db_closed |-> FALSE]

\* "if not user_embedding: return []" of the two user recommenders: the call
\* ends before any index query
NoProfileEmbedding_queries(op, id, limit, faults) ==
    Returned(op, id, limit, Empty, faults, <<limit>>, <<>>)

NoProfileEmbedding(op, id, limit, faults) ==
    Returned(op, id, limit, Empty, faults, <<>>, <<>>)

\* the instants at which the recommenders are observed: an event that ends
\* at 1 has expired at 3
RecInstants == {0, 3}

QueryFaults == {"none", "lookup", "index_query", "distance"}

\* recommend_friends from the exclusion lookup to the return, with the
\* query vector in hand
FriendsFromEmbedding(collection, user_id, limit, user_embedding, faults) ==
    \E fault \in QueryFaults :
      LET lookup_fails == fault = "lookup"
          query_fails == fault = "index_query"
          dist_missing == fault = "distance"
          exclude_user_ids == _get_excluded_user_ids(user_id, lookup_fails) \cup {user_id}
      IN  \E similar_users \in query_similar_users(collection, user_embedding,
                                     IndexRequests(limit)[1],
                                     exclude_user_ids, query_fails, dist_missing) :
            /\ dist_missing => similar_users # <<>>
            /\ last' = Returned("recommend_friends", user_id, limit,
                  FailSoft(FormatFriends(user_id, similar_users, limit, exclude_user_ids)),
                  faults \cup ({fault} \ {"none"}), IndexRequests(limit), similar_users)

PublicEvents == {e \in DOMAIN events : events[e] # NoRow /\ events[e].is_active
                                   /\ events[e].visibility = "public"}

\* RAGRecommendationEngine._get_declined_event_ids: a failing lookup is
\* logged and gives []
_get_declined_event_ids(user_id, lookup_fails) ==
    IF lookup_fails THEN {}
    ELSE {e \in DOMAIN events :
            /\ events[e] # NoRow /\ events[e].is_active
            /\ UserRsvps(events[e], user_id) # <<>>
            /\ Head(UserRsvps(events[e], user_id)).status = "no"}

\* the formatting loop, were it to report every event as open to RSVPs
FormatEventsForUser_unflagged(user_id, similar_events, valid_events) ==
    LET kept == SelectSeq(similar_events, LAMBDA c : c.event_id \in valid_events)
    IN  IF \E i \in DOMAIN kept : kept[i].distance = NoDistance
        THEN [outcome |-> "raised", result |-> <<>>]
        ELSE [outcome |-> "returned",
              result  |-> [i \in DOMAIN kept |->
                 [event_id |-> kept[i].event_id,
                  similarity_score |-> SimilarityScore(kept[i].distance),
                  can_rsvp |-> TRUE]]]

\* the formatting loop of recommend_events_to_user
FormatEventsForUser(user_id, similar_events, valid_events) ==
    LET kept == SelectSeq(similar_events, LAMBDA c :
                    /\ c.event_id \in valid_events
                    /\ events[c.event_id].is_active
                    /\ ~is_expired(events[c.event_id]))
    IN  IF \E i \in DOMAIN kept : kept[i].distance = NoDistance
        THEN [outcome |-> "raised", result |-> <<>>]
        ELSE [outcome |-> "returned",
              result  |-> [i \in DOMAIN kept |->
                 [event_id |-> kept[i].event_id,
                  similarity_score |-> SimilarityScore(kept[i].distance),
                  can_rsvp |-> can_rsvp(events[kept[i].event_id], user_id)]]]

\* recommend_events_to_user from the event query to the return
EventsFromEmbedding(user_id, limit, user_embedding, faults) ==
    LET op == "recommend_events_to_user" IN
    IF PublicEvents = {}
    THEN last' = Returned(op, user_id, limit, Empty, faults, <<>>, <<>>)
    ELSE \E fault \in QueryFaults :
      LET declined_event_ids == _get_declined_event_ids(user_id, fault = "lookup")
          valid_events == {e \in PublicEvents :
                             e \notin declined_event_ids /\ ~is_expired(events[e])}
      IN  IF valid_events = {}
          THEN /\ fault \in {"none", "lookup"}
               /\ last' = Returned(op, user_id, limit, Empty,
                                   faults \cup ({fault} \ {"none"}), <<>>, <<>>)
          ELSE \E similar_events \in query_similar_events(events_collection,
                       user_embedding, EventIndexRequests(limit)[1], valid_events,
                       fault = "index_query", fault = "distance") :
                 /\ fault = "distance" => similar_events # <<>>
                 /\ last' = Returned(op, user_id, limit,
                       FailSoft(FormatEventsForUser(user_id, similar_events, valid_events)),
                       faults \cup ({fault} \ {"none"}), EventIndexRequests(limit),
                       similar_events)

\* the formatting loop of recommend_events_to_group
FormatEventsForGroup(similar_events, all_events) ==
    LET kept == SelectSeq(similar_events, LAMBDA c : c.event_id \in all_events)
    IN  IF \E i \in DOMAIN kept : kept[i].distance = NoDistance
        THEN [outcome |-> "raised", result |-> <<>>]
        ELSE [outcome |-> "returned",
              result  |-> [i \in DOMAIN kept |->
                 [event_id |-> kept[i].event_id,
                  similarity_score |-> SimilarityScore(kept[i].distance)]]]

\* ChromaClient.get_group_embedding: the vector of the index entry, or None
\* when there is none or the read raises
get_group_embedding(group_id, get_fails) ==
    IF get_fails THEN {}
    ELSE {e.embedding : e \in {x \in groups_collection : x.id = group_id}}

\* the user row exists and is open to friends
OpenUser(user_id) ==
    IF users[user_id] = NoRow THEN FALSE ELSE users[user_id].open_to_friends

DomainUnchanged ==
    UNCHANGED <<users, friendVars, eventVars, groupVars, now>>

RecOps == {"recommend_friends", "recommend_events_to_user",
           "recommend_events_to_group"}

\* recommend_friends(user_id, limit) up to the return, or up to the embedder
\* call of _get_user_profile_embedding when the store has no row
recommend_friends(user_id, limit) ==
    LET op == "recommend_friends" IN
    /\ served < MaxServed
    /\ served' = served + 1
    /\ \/ \* the first query raises: caught, []
          /\ last' = Returned(op, user_id, limit, Empty, {"db"}, <<>>, <<>>)
          /\ UNCHANGED inflight
       \/ /\ ~OpenUser(user_id)
          /\ last' = Returned(op, user_id, limit, Empty, {}, <<>>, <<>>)
          /\ UNCHANGED inflight
       \/ /\ OpenUser(user_id)
          /\ user_embeddings[user_id] # <<>>
          /\ FriendsFromEmbedding(users_collection, user_id, limit,
                                  Head(user_embeddings[user_id]).embedding, {})
          /\ UNCHANGED inflight
       \/ /\ OpenUser(user_id)
          /\ user_embeddings[user_id] = <<>>
          /\ HasFreeSlot
          /\ inflight' = [inflight EXCEPT ![FreeSlot] =
                 [op |-> op, id |-> user_id, limit |-> limit]]
          /\ last' = NoCall
    /\ UNCHANGED <<user_embeddings, users_collection>>
    /\ DomainUnchanged

\* recommend_events_to_user up to the return, or up to the embedder call
recommend_events_to_user(user_id, limit) ==
    LET op == "recommend_events_to_user" IN
    /\ served < MaxServed
    /\ served' = served + 1
    /\ \/ \* a query of the function body raises: caught, []
          /\ last' = Returned(op, user_id, limit, Empty, {"db"}, <<>>, <<>>)
          /\ UNCHANGED inflight
       \/ /\ user_embeddings[user_id] # <<>>
          /\ EventsFromEmbedding(user_id, limit,
                                 Head(user_embeddings[user_id]).embedding, {})
          /\ UNCHANGED inflight
       \/ \* no row and no such user: _get_user_profile_embedding gives None
          /\ user_embeddings[user_id] = <<>>
          /\ users[user_id] = NoRow
          /\ last' = NoProfileEmbedding(op, user_id, limit, {})
          /\ UNCHANGED inflight
       \/ /\ user_embeddings[user_id] = <<>>
          /\ users[user_id] # NoRow
          /\ HasFreeSlot
          /\ inflight' = [inflight EXCEPT ![FreeSlot] =
                 [op |-> op, id |-> user_id, limit |-> limit]]
          /\ last' = NoCall
    /\ UNCHANGED <<user_embeddings, users_collection>>
    /\ DomainUnchanged

\* _get_user_profile_embedding from the embedder's answer on, then the rest
\* of the recommender that called it
recommend_resume(slot, write_faults) ==
    LET call == inflight[slot] IN
    /\ call.op \in {"recommend_friends", "recommend_events_to_user"}
    /\ inflight' = [inflight EXCEPT ![slot] = Idle]
    /\ \/ \* the embedder returned []
          /\ last' = NoProfileEmbedding(call.op, call.id, call.limit, {"embedder"})
          /\ UNCHANGED <<user_embeddings, users_collection>>
       \/ \E profile_emb \in Vecs, fault \in OneOf(write_faults) :
            LET w == WriteStoreFirst(user_embeddings, users_collection,
                        AddEmbedding(user_embeddings, call.id, profile_emb),
                        call.id, profile_emb, fault = "commit", fault = "index")
            IN
            /\ user_embeddings' = w.rows
            /\ users_collection' = w.collection
            /\ CASE w.outcome = "written" ->
                      IF call.op = "recommend_friends"
                      THEN FriendsFromEmbedding(w.collection, call.id, call.limit,
                                                profile_emb, {})
                      ELSE EventsFromEmbedding(call.id, call.limit, profile_emb, {})
                 [] w.outcome = "store_only" ->
                      IF call.op = "recommend_friends"
                      THEN FriendsFromEmbedding(w.collection, call.id, call.limit,
                                                profile_emb, {"index_write"})
                      ELSE EventsFromEmbedding(call.id, call.limit, profile_emb,
                                               {"index_write"})
                 [] OTHER ->
                      last' = NoProfileEmbedding(call.op, call.id, call.limit,
                                                 {w.outcome})
    /\ UNCHANGED served
    /\ DomainUnchanged

\* recommend_events_to_group(group_id, limit)
recommend_events_to_group(group_id, limit) ==
    LET op == "recommend_events_to_group"
        event_ids == {e \in PublicEvents : ~is_expired(events[e])}
    IN
    /\ served < MaxServed
    /\ served' = served + 1
    /\ \/ \* a query of the function body raises: caught, []
          /\ last' = Returned(op, group_id, limit, Empty, {"db"}, <<>>, <<>>)
       \/ \E get_fails \in BOOLEAN :
            /\ get_group_embedding(group_id, get_fails) = {}
            /\ last' = Returned(op, group_id, limit, Empty,
                                IF get_fails THEN {"index_get"} ELSE {}, <<>>, <<>>)
       \/ /\ get_group_embedding(group_id, FALSE) # {}
          /\ event_ids = {}
          /\ last' = Returned(op, group_id, limit, Empty, {}, <<>>, <<>>)
       \/ \E group_embedding \in get_group_embedding(group_id, FALSE),
             fault \in {"none", "index_query", "distance"} :
            /\ event_ids # {}
            /\ \E similar_events \in query_similar_events(events_collection,
                       group_embedding, EventIndexRequests(limit)[1], event_ids,
                       fault = "index_query", fault = "distance") :
                 /\ fault = "distance" => similar_events # <<>>
                 /\ last' = Returned(op, group_id, limit,
                       FailSoft(FormatEventsForGroup(similar_events, PublicEvents)),
                       {fault} \ {"none"}, EventIndexRequests(limit), similar_events)
    /\ UNCHANGED <<user_embeddings, users_collection, inflight>>
    /\ DomainUnchanged

\* ------------------------------------------------------ routes/friends.py
ActiveUser(u) == users[u] # NoRow /\ users[u].is_active

FriendshipRows(a, b) ==
    {f \in friendships : \/ f.user1_id = a /\ f.user2_id = b
                         \/ f.user1_id = b /\ f.user2_id = a}

\* the pending-request check, were it to look at one direction only
PendingRows_directed(a, b) ==
    {r \in friend_requests :
        r.status = "pending" /\ r.sender_id = a /\ r.recipient_id = b}

PendingRows(a, b) ==
    {r \in friend_requests :
        /\ r.status = "pending"
        /\ \/ r.sender_id = a /\ r.recipient_id = b
           \/ r.sender_id = b /\ r.recipient_id = a}

send_friend_request(current_user, recipient_id) ==
    /\ served < MaxServed
    /\ ActiveUser(current_user)
    /\ UserDetail(recipient_id)
    /\ recipient_id # current_user
    /\ FriendshipRows(current_user, recipient_id) = {}
    /\ PendingRows(current_user, recipient_id) = {}
    /\ friend_requests' = friend_requests \cup
          {[id |-> NextId(friend_requests), sender_id |-> current_user,
            recipient_id |-> recipient_id, status |-> "pending"]}
    /\ served' = served + 1
    /\ last' = NoCall
    /\ UNCHANGED <<users, friendships, user_embeddings, users_collection,
                   eventVars, groupVars, now, inflight>>

respond_to_friend_request(current_user, request_id, action) ==
    /\ served < MaxServed
    /\ ActiveUser(current_user)
    /\ \E friend_request \in friend_requests :
         /\ friend_request.id = request_id
         /\ friend_request.recipient_id = current_user
         /\ friend_request.status = "pending"
         /\ IF action = "accept"
            THEN /\ friendships' = friendships \cup
                       {[id |-> NextId(friendships),
                         user1_id |-> Min(current_user, friend_request.sender_id),
                         user2_id |-> IF current_user > friend_request.sender_id
                                      THEN current_user ELSE friend_request.sender_id]}
                 /\ friend_requests' = (friend_requests \ {friend_request}) \cup
                       {[friend_request EXCEPT !.status = "accepted"]}
            ELSE /\ friend_requests' = (friend_requests \ {friend_request}) \cup
                       {[friend_request EXCEPT !.status = "declined"]}
                 /\ UNCHANGED friendships
    /\ served' = served + 1
    /\ last' = NoCall
    /\ UNCHANGED <<users, user_embeddings, users_collection,
                   eventVars, groupVars, now, inflight>>

remove_friend(current_user, friend_id) ==
    /\ served < MaxServed
    /\ ActiveUser(current_user)
    /\ \E friendship \in FriendshipRows(current_user, friend_id) :
         friendships' = friendships \ {friendship}
    /\ served' = served + 1
    /\ last' = NoCall
    /\ UNCHANGED <<users, friend_requests, user_embeddings, users_collection,
                   eventVars, groupVars, now, inflight>>

\* -------------------------------------------------------- routes/auth.py
delete_user_account(current_user) ==
    /\ served < MaxServed
    /\ ActiveUser(current_user)
    /\ users' = [users EXCEPT ![current_user].is_active = FALSE]
    /\ served' = served + 1
    /\ last' = NoCall
    /\ UNCHANGED <<friendVars, user_embeddings, users_collection,
                   eventVars, groupVars, now, inflight>>

\* update_user_profile up to the return, or up to the embedder call when bio
\* or interests changed; open_to_friends is None (left alone), True or False
update_user_profile(current_user, open_to_friends, profile_changed) ==
    /\ served < MaxServed
    /\ ActiveUser(current_user)
    /\ users' = IF open_to_friends = "None" THEN users
                ELSE [users EXCEPT ![current_user].open_to_friends = (open_to_friends = "True")]
    /\ IF profile_changed
       THEN /\ HasFreeSlot
            /\ inflight' = [inflight EXCEPT ![FreeSlot] =
                   [op |-> "update_user_profile", id |-> current_user, limit |-> 0]]
       ELSE /\ open_to_friends # "None"
            /\ UNCHANGED inflight
    /\ served' = served + 1
    /\ last' = NoCall
    /\ UNCHANGED <<friendVars, user_embeddings, users_collection,
                   eventVars, groupVars, now>>

\* the read-then-insert-or-update of a writer that has the vector in hand
UpsertRows(rows, id, embedding) ==
    IF rows[id] # <<>>
    THEN SetEmbedding(rows, id, embedding)
    ELSE AddEmbedding(rows, id, embedding)

\* update_user_profile from the embedder's answer on
update_user_profile_resume(slot, write_faults) ==
    LET call == inflight[slot] IN
    /\ call.op = "update_user_profile"
    /\ inflight' = [inflight EXCEPT ![slot] = Idle]
    /\ \/ \* the embedder returned []
          /\ last' = NoVector(call.op, call.id)
          /\ UNCHANGED <<user_embeddings, users_collection>>
       \/ \E profile_embedding \in Vecs, fault \in OneOf(write_faults) :
            LET w == WriteStoreFirst(user_embeddings, users_collection,
                        UpsertRows(user_embeddings, call.id, profile_embedding),
                        call.id, profile_embedding, fault = "commit", fault = "index")
            IN
            /\ user_embeddings' = w.rows
            /\ users_collection' = w.collection
            /\ last' = Wrote(call.op, call.id, profile_embedding, w.outcome,
                             Holds(user_embeddings, users_collection, call.id,
                                   profile_embedding))
    /\ UNCHANGED <<users, friendVars, eventVars, groupVars, now, served>>

FreeUserId == CHOOSE u \in UserIds :
                 users[u] = NoRow /\ \A x \in UserIds : x < u => users[x] # NoRow

\* register_user up to the embedder call: the user row is committed, active
\* and not open to friends
register_user ==
    /\ served < MaxServed
    /\ \E u \in UserIds : users[u] = NoRow
    /\ HasFreeSlot
    /\ users' = [users EXCEPT ![FreeUserId] =
                    [is_active |-> TRUE, open_to_friends |-> FALSE]]
    /\ inflight' = [inflight EXCEPT ![FreeSlot] =
           [op |-> "register_user", id |-> FreeUserId, limit |-> 0]]
    /\ served' = served + 1
    /\ last' = NoCall
    /\ UNCHANGED <<friendVars, user_embeddings, users_collection,
                   eventVars, groupVars, now>>

\* register_user from the embedder's answer on
register_user_resume(slot, write_faults) ==
    LET call == inflight[slot] IN
    /\ call.op = "register_user"
    /\ inflight' = [inflight EXCEPT ![slot] = Idle]
    /\ \/ \* the embedder returned []
          /\ last' = NoVector(call.op, call.id)
          /\ UNCHANGED <<user_embeddings, users_collection>>
       \/ \E profile_embedding \in Vecs, fault \in OneOf(write_faults) :
            LET w == WriteStoreFirst(user_embeddings, users_collection,
                        AddEmbedding(user_embeddings, call.id, profile_embedding),
                        call.id, profile_embedding, fault = "commit", fault = "index")
            IN
            /\ user_embeddings' = w.rows
            /\ users_collection' = w.collection
            /\ last' = Wrote(call.op, call.id, profile_embedding, w.outcome,
                             Holds(user_embeddings, users_collection, call.id,
                                   profile_embedding))
    /\ UNCHANGED <<users, friendVars, eventVars, groupVars, now, served>>

\* ------------------------------------------------------ routes/events.py
can_user_create_event_unlimited(user_id) == TRUE

\* Event.can_user_create_event: fewer than 3 active events that have not ended
can_user_create_event(user_id) ==
    Cardinality({e \in DOMAIN events : /\ events[e] # NoRow
                                  /\ events[e].creator_id = user_id
                                  /\ events[e].is_active
                                  /\ events[e].end_time > now}) < MaxActiveEvents

FreeEventId == CHOOSE e \in DOMAIN events :
                  events[e] = NoRow /\ \A f \in DOMAIN events : f < e => events[f] # NoRow

\* validate_event_permissions(event, user, "view")
CanView(event, user_id) ==
    CASE event.visibility = "public"  -> TRUE
      [] event.visibility = "friends" ->
            event.creator_id = user_id \/ user_id \in FriendsOf(event.creator_id)
      [] event.visibility = "private" -> event.creator_id = user_id
      [] OTHER -> FALSE

\* Event._update_rsvp_counts
_update_rsvp_counts(event) ==
    LET Count(status) ==
            Cardinality({i \in DOMAIN event.rsvps : event.rsvps[i].status = status})
    IN  [event EXCEPT !.attendee_count = Count("yes"),
                      !.maybe_count = Count("maybe"),
                      !.declined_count = Count("no")]

add_rsvp_append(event, user_id, status) ==
    _update_rsvp_counts([event EXCEPT !.rsvps =
        Append(event.rsvps, [user_id |-> user_id, status |-> status])])

\* Event.add_rsvp: the user's earlier RSVP is removed, the new one appended
\* and the counts recomputed
add_rsvp(event, user_id, status) ==
    _update_rsvp_counts([event EXCEPT !.rsvps =
        Append(SelectSeq(event.rsvps, LAMBDA r : r.user_id # user_id),
               [user_id |-> user_id, status |-> status])])

\* create_event up to the embedder call: the event row is committed; the
\* event starts now, ends in hours and expires ExpiryHours after its end
create_event(current_user, visibility, max_attendees, rsvp_deadline, hours) ==
    /\ served < MaxServed
    /\ ActiveUser(current_user)
    /\ can_user_create_event(current_user)
    /\ \E e \in DOMAIN events : events[e] = NoRow
    /\ HasFreeSlot
    /\ events' = [events EXCEPT ![FreeEventId] =
          NewEvent(current_user, visibility, now + hours, rsvp_deadline,
                   max_attendees)]
    /\ inflight' = [inflight EXCEPT ![FreeSlot] =
           [op |-> "create_event", id |-> FreeEventId, limit |-> 0]]
    /\ served' = served + 1
    /\ last' = NoCall
    /\ UNCHANGED <<users, friendVars, user_embeddings, users_collection,
                   event_embeddings, events_collection, groupVars, now>>

\* create_event from the embedder's answer on
create_event_resume(slot, write_faults) ==
    LET call == inflight[slot] IN
    /\ call.op = "create_event"
    /\ inflight' = [inflight EXCEPT ![slot] = Idle]
    /\ \/ \* the embedder returned []
          /\ last' = NoVector(call.op, call.id)
          /\ UNCHANGED <<event_embeddings, events_collection>>
       \/ \E event_embedding \in Vecs, fault \in OneOf(write_faults) :
            LET w == WriteStoreFirst(event_embeddings, events_collection,
                        AddEmbedding(event_embeddings, call.id, event_embedding),
                        call.id, event_embedding, fault = "commit", fault = "index")
            IN
            /\ event_embeddings' = w.rows
            /\ events_collection' = w.collection
            /\ last' = Wrote(call.op, call.id, event_embedding, w.outcome,
                             Holds(event_embeddings, events_collection, call.id,
                                   event_embedding))
    /\ UNCHANGED <<users, friendVars, user_embeddings, users_collection, events,
                   groupVars, now, served>>

delete_event(current_user, event_id) ==
    /\ served < MaxServed
    /\ ActiveUser(current_user)
    /\ events[event_id] # NoRow
    /\ events[event_id].creator_id = current_user
    /\ events[event_id].is_active
    /\ events' = [events EXCEPT ![event_id].is_active = FALSE]
    /\ served' = served + 1
    /\ last' = NoCall
    /\ UNCHANGED <<users, friendVars, user_embeddings, users_collection,
                   event_embeddings, events_collection, groupVars, now, inflight>>

rsvp_to_event(current_user, event_id, status) ==
    /\ served < MaxServed
    /\ ActiveUser(current_user)
    /\ events[event_id] # NoRow
    /\ CanView(events[event_id], current_user)
    /\ can_rsvp(events[event_id], current_user)
    /\ events' = [events EXCEPT ![event_id] = add_rsvp(@, current_user, status)]
    /\ served' = served + 1
    /\ last' = [op |-> "rsvp_to_event", id |-> event_id, user_id |-> current_user,
                status |-> status]
    /\ UNCHANGED <<users, friendVars, user_embeddings, users_collection,
                   event_embeddings, events_collection, groupVars, now, inflight>>

\* ---------------------------------------------------- ai/embedding_tasks.py
\* whether a DateTime read back from the database carries tzinfo: the engine
\* is SQLite, which stores none
TzAwareOnLoad == FALSE

\* the staleness decision of a sweep: "yes", "no", or "raised" when
\* datetime.now(timezone.utc) - existing.last_updated mixes an aware and a
\* naive datetime (TypeError)
NeedsUpdate(existing) ==
    IF existing = <<>> THEN "yes"
    ELSE IF ~TzAwareOnLoad THEN "raised"
    ELSE IF now - Head(existing).last_updated > TTLHours THEN "yes"
    ELSE "no"

Decided(op, id, needs_update) == [op |-> op, id |-> id, needs_update |-> needs_update]

\* one iteration of a refresh sweep up to the embedder call, or to the
\* continue / except that skips the entity
SweepRead(op, id, existing) ==
    LET needs_update == NeedsUpdate(existing) IN
    /\ served < MaxServed
    /\ served' = served + 1
    /\ last' = Decided(op, id, needs_update)
    /\ IF needs_update = "yes"
       THEN /\ HasFreeSlot
            /\ inflight' = [inflight EXCEPT ![FreeSlot] =
                   [op |-> op, id |-> id, limit |-> 0, existing |-> existing # <<>>]]
       ELSE UNCHANGED inflight

\* one iteration of a sweep from the embedder's answer on: update or add the
\* row, write the index entry, commit; except: rollback
SweepWrite(op, slot, rows, collection, write_faults) ==
    LET call == inflight[slot] IN
    /\ call.op = op
    /\ inflight' = [inflight EXCEPT ![slot] = Idle]
    /\ \/ \* the embedder returned []
          /\ last' = NoVector(op, call.id)
          /\ UNCHANGED <<rows, collection>>
       \/ \E embedding \in Vecs, fault \in OneOf(write_faults) :
            LET pending == IF call.existing /\ rows[call.id] # <<>>
                           THEN SetEmbedding(rows, call.id, embedding)
                           ELSE AddEmbedding(rows, call.id, embedding)
                w == WriteIndexFirst(rows, collection, pending, call.id, embedding,
                                     fault = "commit", fault = "index")
            IN
            /\ rows' = w.rows
            /\ collection' = w.collection
            /\ last' = Wrote(op, call.id, embedding, w.outcome,
                             Holds(rows, collection, call.id, embedding))

\* update_user_embeddings, the iteration for one active user
update_user_embeddings(user_id) ==
    /\ ActiveUser(user_id)
    /\ SweepRead("update_user_embeddings", user_id, user_embeddings[user_id])
    /\ UNCHANGED <<users, friendVars, user_embeddings, users_collection,
                   eventVars, groupVars, now>>

update_user_embeddings_resume(slot, write_faults) ==
    /\ SweepWrite("update_user_embeddings", slot, user_embeddings, users_collection,
                  write_faults)
    /\ UNCHANGED <<users, friendVars, eventVars, groupVars, now, served>>

\* update_group_embeddings, the iteration for one active group
update_group_embeddings(group_id) ==
    /\ groups[group_id].is_active
    /\ SweepRead("update_group_embeddings", group_id, group_embeddings[group_id])
    /\ UNCHANGED <<users, friendVars, user_embeddings, users_collection,
                   eventVars, groupVars, now>>

update_group_embeddings_resume(slot, write_faults) ==
    /\ SweepWrite("update_group_embeddings", slot, group_embeddings, groups_collection,
                  write_faults)
    /\ UNCHANGED <<users, friendVars, user_embeddings, users_collection,
                   eventVars, groups, now, served>>

\* the events create_event_embeddings lists: active, without a row in the
\* event_embeddings table
events_without_embeddings ==
    {e \in DOMAIN events : /\ events[e] # NoRow /\ events[e].is_active
                           /\ event_embeddings[e] = <<>>}

\* create_event_embeddings, the iteration for one of the events it listed
create_event_embeddings(event_id) ==
    /\ served < MaxServed
    /\ event_id \in events_without_embeddings
    /\ HasFreeSlot
    /\ inflight' = [inflight EXCEPT ![FreeSlot] =
           [op |-> "create_event_embeddings", id |-> event_id, limit |-> 0,
            existing |-> FALSE]]
    /\ served' = served + 1
    /\ last' = NoCall
    /\ UNCHANGED <<users, friendVars, user_embeddings, users_collection,
                   eventVars, groupVars, now>>

create_event_embeddings_resume(slot, write_faults) ==
    /\ SweepWrite("create_event_embeddings", slot, event_embeddings, events_collection,
                  write_faults)
    /\ UNCHANGED <<users, friendVars, user_embeddings, users_collection, events,
                   groupVars, now, served>>

\* ------------------------------------------------ the cleanup of embeddings
\* the rows the three queries of cleanup_expired_embeddings give: embedding
\* rows joined to an owner row that is inactive
inactive_user_embeddings ==
    {u \in UserIds : /\ user_embeddings[u] # <<>>
                     /\ users[u] # NoRow /\ ~users[u].is_active}

inactive_event_embeddings ==
    {e \in DOMAIN events : /\ event_embeddings[e] # <<>>
                           /\ events[e] # NoRow /\ ~events[e].is_active}

inactive_group_embeddings ==
    {g \in GroupIds : group_embeddings[g] # <<>> /\ ~groups[g].is_active}

\* a cleanup loop that kept the row when the index delete failed
DeleteEmbeddings_guarded(rows, collection, ids, index_fails) ==
    IF index_fails THEN [rows |-> rows, collection |-> collection]
    ELSE [rows |-> [k \in DOMAIN rows |-> IF k \in ids THEN <<>> ELSE rows[k]],
          collection |-> {x \in collection : x.id \notin ids}]

\* one loop of cleanup_expired_embeddings: chroma_client.delete_*_embedding,
\* which returns False when the delete raises, then db.delete(embedding)
DeleteEmbeddings(rows, collection, ids, index_fails) ==
    [rows |-> [k \in DOMAIN rows |-> IF k \in ids THEN <<>> ELSE rows[k]],
     collection |-> IF index_fails THEN collection
                    ELSE {x \in collection : x.id \notin ids}]

\* what may go wrong in one cleanup: the deletes of one collection, or the
\* only commit, at the end
CleanupFaults == {"none", "index_users", "index_events", "index_groups", "commit"}

\* cleanup_expired_embeddings: the three loops, then one commit; a failed
\* commit rolls every db.delete back and leaves the index deletes done
cleanup_expired_embeddings ==
    \E fault \in CleanupFaults :
      LET u == DeleteEmbeddings(user_embeddings, users_collection,
                                inactive_user_embeddings, fault = "index_users")
          e == DeleteEmbeddings(event_embeddings, events_collection,
                                inactive_event_embeddings, fault = "index_events")
          g == DeleteEmbeddings(group_embeddings, groups_collection,
                                inactive_group_embeddings, fault = "index_groups")
      IN
      /\ users_collection' = u.collection
      /\ events_collection' = e.collection
      /\ groups_collection' = g.collection
      /\ user_embeddings' = IF fault = "commit" THEN user_embeddings ELSE u.rows
      /\ event_embeddings' = IF fault = "commit" THEN event_embeddings ELSE e.rows
      /\ group_embeddings' = IF fault = "commit" THEN group_embeddings ELSE g.rows
      /\ last' = [op |-> "cleanup_expired_embeddings", fault |-> fault,
                  users |-> inactive_user_embeddings,
                  events |-> inactive_event_embeddings,
                  groups |-> inactive_group_embeddings]
      /\ UNCHANGED <<users, friendVars, events, groups, now, served, inflight>>

\* --------------------------------------------- utils/background_tasks.py
DaysInactive == 30

DaysOld == 90

\* BackgroundTaskManager.cleanup_expired_content, every 5 minutes: the
\* active events whose expires_at has come are made inactive
cleanup_expired_content ==
    LET expired_events == {e \in DOMAIN events : /\ events[e] # NoRow
                              /\ events[e].is_active /\ events[e].expires_at <= now}
    IN
    /\ expired_events # {}
    /\ events' = [e \in DOMAIN events |->
                    IF e \in expired_events THEN [events[e] EXCEPT !.is_active = FALSE]
                    ELSE events[e]]
    /\ last' = NoCall
    /\ UNCHANGED <<users, friendVars, user_embeddings, users_collection,
                   event_embeddings, events_collection, groupVars, now, served,
                   inflight>>

\* BackgroundTaskManager.cleanup_inactive_groups: the active groups created
\* 30 days ago or earlier, without a message since, are made inactive
cleanup_inactive_groups ==
    LET inactive_groups == {g \in GroupIds : /\ groups[g].is_active
                               /\ groups[g].created_at <= now - DaysInactive * 24}
    IN
    /\ inactive_groups # {}
    /\ groups' = [g \in GroupIds |->
                    IF g \in inactive_groups THEN [groups[g] EXCEPT !.is_active = FALSE]
                    ELSE groups[g]]
    /\ last' = NoCall
    /\ UNCHANGED <<users, friendVars, user_embeddings, users_collection, eventVars,
                   group_embeddings, groups_collection, now, served, inflight>>

\* cleanup_old_data: the rows of the inactive events that expired 90 days
\* ago or earlier are deleted from the events table
cleanup_old_data ==
    LET old_events == {e \in DOMAIN events : /\ events[e] # NoRow
                          /\ ~events[e].is_active
                          /\ events[e].expires_at <= now - DaysOld * 24}
    IN
    /\ old_events # {}
    /\ events' = [e \in DOMAIN events |->
                    IF e \in old_events THEN NoRow ELSE events[e]]
    /\ last' = NoCall
    /\ UNCHANGED <<users, friendVars, user_embeddings, users_collection,
                   event_embeddings, events_collection, groupVars, now, served,
                   inflight>>

\* time passes
TickTo(t) ==
    /\ t > now
    /\ now' = t
    /\ last' = NoCall
    /\ UNCHANGED <<users, friendVars, user_embeddings, users_collection, eventVars,
                   groupVars, served, inflight>>

\* ---------------------------------------------------------------- specs
\* every user registered and opted in to friend matching, with the embedding
\* made at registration (same default profile, same vector) unless the
\* embedder was down for the first user; users 2 and 3 are friends; the
\* public events of user 1 (the first without attendee limit, the others
\* limited to 1 attendee) and one group are embedded and indexed
InitRec ==
    /\ users = [u \in UserIds |-> [is_active |-> TRUE, open_to_friends |-> TRUE]]
    /\ friendships = {[id |-> 1, user1_id |-> 2, user2_id |-> 3]}
    /\ friend_requests = {[id |-> 1, sender_id |-> 2, recipient_id |-> 3,
                           status |-> "accepted"]}
    /\ \E E \in {UserIds, UserIds \ {1}} :
         /\ user_embeddings = [u \in UserIds |->
               IF u \in E THEN <<[embedding |-> 0, last_updated |-> 0]>> ELSE <<>>]
         /\ users_collection = {[id |-> u, embedding |-> 0] : u \in E}
    /\ events = [e \in EventIds |->
          NewEvent(1, "public", 1, NoTime, IF e = 1 THEN 0 ELSE 1)]
    /\ event_embeddings = [e \in EventIds |->
          <<[embedding |-> 0, last_updated |-> 0]>>]
    /\ events_collection = {[id |-> e, embedding |-> 0] : e \in EventIds}
    /\ groups = [g \in GroupIds |-> NewGroup]
    /\ group_embeddings = [g \in GroupIds |-> <<[embedding |-> 0, last_updated |-> 0]>>]
    /\ groups_collection = {[id |-> g, embedding |-> 0] : g \in GroupIds}
    /\ now = 0
    /\ served = 0
    /\ inflight = [s \in Slots |-> Idle]
    /\ last = NoCall

NextRec ==
    \/ \E u \in UserIds, limit \in Limits : recommend_friends(u, limit)
    \/ \E u \in UserIds, limit \in Limits : recommend_events_to_user(u, limit)
    \/ \E g \in GroupIds, limit \in Limits : recommend_events_to_group(g, limit)
    \/ \E s \in Slots : recommend_resume(s, {})
    \/ \E u, x \in UserIds : send_friend_request(u, x)
    \/ \E u \in UserIds, r \in 1..(MaxServed + 1), a \in {"accept", "decline"} :
          respond_to_friend_request(u, r, a)
    \/ \E u, x \in UserIds : remove_friend(u, x)
    \/ \E u \in UserIds : delete_user_account(u)
    \/ \E u \in UserIds, o \in {"True", "False"} : update_user_profile(u, o, FALSE)
    \/ \E u \in UserIds : update_user_profile(u, "None", TRUE)
    \/ \E s \in Slots : update_user_profile_resume(s, {})
    \/ \E u \in UserIds, e \in EventIds : delete_event(u, e)
    \/ \E u \in UserIds, e \in EventIds, st \in {"yes", "no"} :
          rsvp_to_event(u, e, st)
    \/ \E t \in RecInstants : TickTo(t)

SpecRec == InitRec /\ [][NextRec]_vars

\* the faults of a write: the commit fails, the index write fails
WriteFaults == {"commit", "index"}

\* the instant at which the writers are observed again: past the TTL
SweepInstants == {TTLHours + 1}

\* users 1 and 2 registered and opted in, the first with its embedding, the
\* second without (the embedder was down); the other users not registered;
\* the first event made by user 1, not embedded; no group embedded
Init ==
    /\ users = [u \in UserIds |->
          IF u <= 2 THEN [is_active |-> TRUE, open_to_friends |-> TRUE] ELSE NoRow]
    /\ friendships = {}
    /\ friend_requests = {}
    /\ user_embeddings = [u \in UserIds |->
          IF u = 1 THEN <<[embedding |-> 0, last_updated |-> 0]>> ELSE <<>>]
    /\ users_collection = {[id |-> 1, embedding |-> 0]}
    /\ events = [e \in EventIds |->
          IF e = 1
          THEN NewEvent(1, "public", 1, NoTime, 0)
          ELSE NoRow]
    /\ event_embeddings = [e \in EventIds |-> <<>>]
    /\ events_collection = {}
    /\ groups = [g \in GroupIds |-> NewGroup]
    /\ group_embeddings = [g \in GroupIds |-> <<>>]
    /\ groups_collection = {}
    /\ now = 0
    /\ served = 0
    /\ inflight = [s \in Slots |-> Idle]
    /\ last = NoCall

Next ==
    \/ register_user
    \/ \E s \in Slots : register_user_resume(s, WriteFaults)
    \/ \E u \in UserIds : update_user_profile(u, "None", TRUE)
    \/ \E s \in Slots : update_user_profile_resume(s, WriteFaults)
    \/ \E u \in UserIds : recommend_events_to_user(u, 1)
    \/ \E s \in Slots : recommend_resume(s, WriteFaults)
    \/ \E g \in GroupIds : recommend_events_to_group(g, 1)
    \/ \E u \in UserIds : create_event(u, "public", 0, NoTime, 1)
    \/ \E s \in Slots : create_event_resume(s, WriteFaults)
    \/ \E u \in UserIds : update_user_embeddings(u)
    \/ \E s \in Slots : update_user_embeddings_resume(s, WriteFaults)
    \/ \E g \in GroupIds : update_group_embeddings(g)
    \/ \E s \in Slots : update_group_embeddings_resume(s, WriteFaults)
    \/ \E e \in EventIds : create_event_embeddings(e)
    \/ \E s \in Slots : create_event_embeddings_resume(s, WriteFaults)
    \/ \E t \in SweepInstants : TickTo(t)

Spec == Init /\ [][Next]_vars

\* the events table has room for one event more than a user may have active
EventRows == 1..(MaxActiveEvents + 1)

\* an event that ends at 1 has ended, and not yet expired, at 2
EventInstants == {2}

\* user 1 has created up to 3 public events that end at 1; the first of them
\* may have an attendee limit of 1 and a "maybe" of user 2; nothing is embedded
InitEvents ==
    /\ users = [u \in UserIds |-> [is_active |-> TRUE, open_to_friends |-> FALSE]]
    /\ friendships = {}
    /\ friend_requests = {}
    /\ user_embeddings = [u \in UserIds |-> <<>>]
    /\ users_collection = {}
    /\ \E created \in 0..MaxActiveEvents, max_attendees \in {0, 1},
          answered \in BOOLEAN :
         events = [e \in EventRows |->
            IF e > created THEN NoRow
            ELSE IF e > 1 THEN NewEvent(1, "public", 1, NoTime, 0)
            ELSE IF answered
                 THEN add_rsvp(NewEvent(1, "public", 1, NoTime, max_attendees),
                               2, "maybe")
                 ELSE NewEvent(1, "public", 1, NoTime, max_attendees)]
    /\ event_embeddings = [e \in EventRows |-> <<>>]
    /\ events_collection = {}
    /\ groups = [g \in GroupIds |-> NewGroup]
    /\ group_embeddings = [g \in GroupIds |-> <<>>]
    /\ groups_collection = {}
    /\ now = 0
    /\ served = 0
    /\ inflight = [s \in Slots |-> Idle]
    /\ last = NoCall

NextEvents ==
    \/ \E u \in UserIds : create_event(u, "public", 0, NoTime, 1)
    \/ \E s \in Slots : create_event_resume(s, {})
    \/ \E u \in UserIds, e \in EventRows : delete_event(u, e)
    \/ \E u \in UserIds, e \in EventRows, st \in {"yes", "maybe", "no"} :
          rsvp_to_event(u, e, st)
    \/ \E t \in EventInstants : TickTo(t)

SpecEvents == InitEvents /\ [][NextEvents]_vars

\* an event that ends at 1 has expired at 3; 3 hours after the 90 days of
\* cleanup_old_data its row may be deleted
CleanupInstants == {3, DaysOld * 24 + 3}

\* every user, every event (public, of user 1, ending at 1) and the group
\* are active, embedded and indexed
InitCleanup ==
    /\ users = [u \in UserIds |-> [is_active |-> TRUE, open_to_friends |-> TRUE]]
    /\ friendships = {}
    /\ friend_requests = {}
    /\ user_embeddings = [u \in UserIds |-> <<[embedding |-> 0, last_updated |-> 0]>>]
    /\ users_collection = {[id |-> u, embedding |-> 0] : u \in UserIds}
    /\ events = [e \in EventIds |-> NewEvent(1, "public", 1, NoTime, 0)]
    /\ event_embeddings = [e \in EventIds |->
          <<[embedding |-> 0, last_updated |-> 0]>>]
    /\ events_collection = {[id |-> e, embedding |-> 0] : e \in EventIds}
    /\ groups = [g \in GroupIds |-> NewGroup]
    /\ group_embeddings = [g \in GroupIds |-> <<[embedding |-> 0, last_updated |-> 0]>>]
    /\ groups_collection = {[id |-> g, embedding |-> 0] : g \in GroupIds}
    /\ now = 0
    /\ served = 0
    /\ inflight = [s \in Slots |-> Idle]
    /\ last = NoCall

NextCleanup ==
    \/ \E u \in UserIds : delete_user_account(u)
    \/ \E u \in UserIds, e \in EventIds : delete_event(u, e)
    \/ cleanup_expired_content
    \/ cleanup_inactive_groups
    \/ cleanup_old_data
    \/ cleanup_expired_embeddings
    \/ \E t \in CleanupInstants : TickTo(t)

SpecCleanup == InitCleanup /\ [][NextCleanup]_vars

\* a record made at 0 is older than 24 hours at 25
ServerInstants == {3, TTLHours + 1}

\* the server has started: any set of the users has an embedding record,
\* made at 0; the events and the group are embedded
InitServer ==
    /\ users = [u \in UserIds |-> [is_active |-> TRUE, open_to_friends |-> TRUE]]
    /\ friendships = {}
    /\ friend_requests = {}
    /\ \E E \in SUBSET UserIds :
         /\ user_embeddings = [u \in UserIds |->
               IF u \in E THEN <<[embedding |-> 0, last_updated |-> 0]>> ELSE <<>>]
         /\ users_collection = {[id |-> u, embedding |-> 0] : u \in E}
    /\ events = [e \in EventIds |-> NewEvent(1, "public", 1, NoTime, 0)]
    /\ event_embeddings = [e \in EventIds |->
          <<[embedding |-> 0, last_updated |-> 0]>>]
    /\ events_collection = {[id |-> e, embedding |-> 0] : e \in EventIds}
    /\ groups = [g \in GroupIds |-> NewGroup]
    /\ group_embeddings = [g \in GroupIds |-> <<[embedding |-> 0, last_updated |-> 0]>>]
    /\ groups_collection = {[id |-> g, embedding |-> 0] : g \in GroupIds}
    /\ now = 0
    /\ served = 0
    /\ inflight = [s \in Slots |-> Idle]
    /\ last = NoCall

\* what happens in the running server when nobody asks for recommendations:
\* the task BackgroundTaskManager.start creates that touches this state
\* (the periodic cleanup; the metrics task only reads), the passing of time,
\* and requests to the other routes
NextServer ==
    \/ cleanup_expired_content
    \/ \E t \in ServerInstants : TickTo(t)
    \/ \E u \in UserIds : delete_user_account(u)
    \/ \E u \in UserIds : update_user_profile(u, "None", TRUE)
    \/ \E s \in Slots : update_user_profile_resume(s, {})
    \/ \E u \in UserIds, e \in EventIds : delete_event(u, e)

\* the periodic cleanup loops for ever (sleep 300 seconds between runs) and
\* time passes; no request is ever bound to arrive
SpecServer ==
    /\ InitServer /\ [][NextServer]_vars
    /\ WF_vars(cleanup_expired_content)
    /\ WF_vars(\E t \in ServerInstants : TickTo(t))

\* the friend tables after the requests served so far: nothing yet; users 2
\* and 3 friends by an accepted request; that friendship removed again; a
\* request of user 1 to user 2 pending; that request declined
FriendSeeds ==
    {[friendships |-> {}, friend_requests |-> {}],
     [friendships |-> {[id |-> 1, user1_id |-> 2, user2_id |-> 3]},
      friend_requests |-> {[id |-> 1, sender_id |-> 2, recipient_id |-> 3,
                            status |-> "accepted"]}],
     [friendships |-> {},
      friend_requests |-> {[id |-> 1, sender_id |-> 2, recipient_id |-> 3,
                            status |-> "accepted"]}],
     [friendships |-> {},
      friend_requests |-> {[id |-> 1, sender_id |-> 1, recipient_id |-> 2,
                            status |-> "pending"]}],
     [friendships |-> {},
      friend_requests |-> {[id |-> 1, sender_id |-> 1, recipient_id |-> 2,
                            status |-> "declined"]}]}

InitFriends ==
    /\ users = [u \in UserIds |-> [is_active |-> TRUE, open_to_friends |-> TRUE]]
    /\ \E seed \in FriendSeeds :
         /\ friendships = seed.friendships
         /\ friend_requests = seed.friend_requests
    /\ user_embeddings = [u \in UserIds |-> <<[embedding |-> 0, last_updated |-> 0]>>]
    /\ users_collection = {[id |-> u, embedding |-> 0] : u \in UserIds}
    /\ events = [e \in EventIds |-> NoRow]
    /\ event_embeddings = [e \in EventIds |-> <<>>]
    /\ events_collection = {}
    /\ groups = [g \in GroupIds |-> NewGroup]
    /\ group_embeddings = [g \in GroupIds |-> <<>>]
    /\ groups_collection = {}
    /\ now = 0
    /\ served = 0
    /\ inflight = [s \in Slots |-> Idle]
    /\ last = NoCall

NextFriends ==
    \/ \E u, x \in UserIds : send_friend_request(u, x)
    \/ \E u \in UserIds, r \in 1..(MaxServed + 1), a \in {"accept", "decline"} :
          respond_to_friend_request(u, r, a)
    \/ \E u, x \in UserIds : remove_friend(u, x)
    \/ \E u \in UserIds, o \in {"True", "False"} : update_user_profile(u, o, FALSE)
    \/ \E u \in UserIds : delete_user_account(u)

SpecFriends == InitFriends /\ [][NextFriends]_vars

\* --------------------------------------------------------------- claims
RecCall == last.op \in RecOps

EntryId(e) == IF "user_id" \in DOMAIN e THEN e.user_id ELSE e.event_id

Ids(entries) == [i \in DOMAIN entries |-> EntryId(entries[i])]

\* the users with a pending or declined friend request with u, either way
PendingOrDeclined(u) ==
    {IF r.sender_id = u THEN r.recipient_id ELSE r.sender_id :
        r \in {q \in friend_requests :
                 /\ q.sender_id = u \/ q.recipient_id = u
                 /\ q.status \in {"pending", "declined"}}}

\* C1: the list recommend_friends(u, limit) returns never contains u, a user
\* with a Friendship row with u, or a user with a pending or declined friend
\* request with u in either direction, also when the exclusion lookup fails
C1_FriendsNeverExcluded ==
    last.op = "recommend_friends" =>
        \A i \in DOMAIN last.result :
            /\ last.result[i].user_id # last.id
            /\ last.result[i].user_id \notin FriendsOf(last.id)
            /\ last.result[i].user_id \notin PendingOrDeclined(last.id)

EndingFaults == {"db", "index_query", "index_get", "embedder", "distance",
                 "commit_failed", "integrity_error"}

C3_OrderedByScoreThenId ==
    RecCall =>
        \A i, j \in DOMAIN last.result :
            i < j =>
                \/ last.result[i].similarity_score > last.result[j].similarity_score
                \/ /\ last.result[i].similarity_score = last.result[j].similarity_score
                   /\ EntryId(last.result[i]) < EntryId(last.result[j])

\* C3 amended: each recommender's list is in the order in which the index
\* returned the candidates, which is by similarity score descending; results
\* of equal score are in the index's order, whatever their ids
C3_OrderedAsRetrieved ==
    RecCall =>
        /\ \A i, j \in DOMAIN last.result :
              i < j => last.result[i].similarity_score >= last.result[j].similarity_score
        /\ SelectSeq(Ids(last.retrieved),
                     LAMBDA x : x \in Range(Ids(last.result))) = Ids(last.result)

\* a list of two results of different score
C3_Witness ==
    /\ RecCall
    /\ Len(last.result) >= 2
    /\ last.result[1].similarity_score > last.result[2].similarity_score

\* C4: every returned entry's similarity_score is 1 minus the distance the
\* index reported for that candidate, and lies in [0, 1]
C4_ScoreInUnitRange ==
    RecCall =>
        \A i \in DOMAIN last.result :
            /\ \E k \in DOMAIN last.retrieved :
                  /\ EntryId(last.retrieved[k]) = EntryId(last.result[i])
                  /\ last.result[i].similarity_score = One - last.retrieved[k].distance
            /\ 0 <= last.result[i].similarity_score
            /\ last.result[i].similarity_score <= One

\* the retrieved candidates that pass re-validation: active, open to friends,
\* not excluded
ValidRetrieved ==
    {k \in DOMAIN last.retrieved :
        /\ UserDetail(last.retrieved[k].user_id)
        /\ last.retrieved[k].user_id \notin
              (_get_excluded_user_ids(last.id, FALSE) \cup {last.id})}

\* C5: recommend_friends asks the index for limit * 3 candidates, filters all
\* of them and then truncates: the list has exactly min(limit, V) entries,
\* V the number of retrieved candidates that pass re-validation
C5_FilterThenTruncate ==
    (last.op = "recommend_friends" /\ last.faults = {} /\ last.queries # <<>>) =>
        /\ last.queries[1] = last.limit * OverFetch
        /\ Len(last.result) = Min(last.limit, Cardinality(ValidRetrieved))

\* C6: one recommendation call issues at most 3 index queries and returns, with
\* at most limit entries and fewer when too few valid candidates exist
C6_BoundedQueries ==
    RecCall => /\ Len(last.queries) <= 3
               /\ last.outcome = "returned"
               /\ Len(last.result) <= last.limit

\* a call that queried the index and returned short of limit
C6_Witness ==
    /\ RecCall
    /\ last.faults = {}
    /\ Len(last.queries) = 1
    /\ Len(last.result) < last.limit

\* C7: the store holds at most one embedding row per entity of each type
C7_OneRecordPerKey ==
    /\ \A u \in UserIds : Len(user_embeddings[u]) <= 1
    /\ \A g \in GroupIds : Len(group_embeddings[g]) <= 1
    /\ \A e \in EventIds : Len(event_embeddings[e]) <= 1

\* an embed-on-miss whose insert lost the race for the key to another writer
C7_Witness ==
    /\ RecCall
    /\ "integrity_error" \in last.faults
    /\ Len(user_embeddings[last.id]) = 1

Writers == {"register_user", "update_user_profile", "create_event",
            "update_user_embeddings", "update_group_embeddings",
            "create_event_embeddings"}

RowsOf(op) ==
    CASE op \in {"create_event", "create_event_embeddings"} -> event_embeddings
      [] op = "update_group_embeddings" -> group_embeddings
      [] OTHER -> user_embeddings

CollectionOf(op) ==
    CASE op \in {"create_event", "create_event_embeddings"} -> events_collection
      [] op = "update_group_embeddings" -> groups_collection
      [] OTHER -> users_collection

Completed ==
    last.op \in Writers /\ "embedding" \in DOMAIN last /\ last.outcome = "written"

\* C8: an upsert of (type, id, vector) that completes leaves exactly one row
\* and exactly one index entry for the key, both holding the vector, whether
\* it is the first such upsert or a repetition
C8_UpsertIdempotent ==
    Completed => Holds(RowsOf(last.op), CollectionOf(last.op), last.id, last.embedding)

\* an upsert of the vector the store and the index already held for the key
C8_Witness == Completed /\ last.again

\* C9: the staleness decision of a sweep is true (the entity is refreshed)
\* for an absent record and when now - last_updated exceeds 24 hours, and
\* false (the entity is left alone) when it is at most 24 hours
C9_StalenessDecision ==
    (last.op \in {"update_user_embeddings", "update_group_embeddings"}
        /\ "needs_update" \in DOMAIN last) =>
        LET existing == RowsOf(last.op)[last.id] IN
        (last.needs_update = "yes") =
            (IF existing = <<>> THEN TRUE
             ELSE now - Head(existing).last_updated > TTLHours)

\* C10: every entity with an index entry has a committed row in the store
C10_StoreNeverBehindIndex ==
    /\ \A u \in UserIds : EntriesOf(users_collection, u) # {} => user_embeddings[u] # <<>>
    /\ \A g \in GroupIds : EntriesOf(groups_collection, g) # {} => group_embeddings[g] # <<>>
    /\ \A e \in EventIds : EntriesOf(events_collection, e) # {} => event_embeddings[e] # <<>>

\* the step is the return of a recommender call whose embedder call failed
EmbedderFailed ==
    /\ inflight' # inflight
    /\ last'.op \in {"recommend_friends", "recommend_events_to_user"}
    /\ "embedder" \in last'.faults

\* C11: when the requester has no embedding record and the embedder fails,
\* recommend_friends and recommend_events_to_user return an empty list, issue
\* no index query and leave the store and the index unchanged
C11_EmbedderFailureIsQuiet ==
    [][EmbedderFailed =>
          /\ last'.outcome = "returned" /\ last'.result = <<>>
          /\ last'.queries = <<>>
          /\ UNCHANGED <<user_embeddings, users_collection, event_embeddings,
                         events_collection, group_embeddings, groups_collection>>]_vars

\* a recommender call for a user without a record returned after the
\* embedder gave no vector
C11_Witness ==
    /\ RecCall /\ "embedder" \in last.faults
    /\ user_embeddings[last.id] = <<>>

\* the events of a user that are active and end in the future
ActiveFutureEvents(u) ==
    {e \in DOMAIN events : /\ events[e] # NoRow /\ events[e].creator_id = u
                           /\ events[e].is_active /\ events[e].end_time > now}

\* the rows a step adds to the events table for user u
CreatedFor(u) ==
    {e \in DOMAIN events : /\ events[e] = NoRow /\ events'[e] # NoRow
                           /\ events'[e].creator_id = u}

\* C12: whatever creations and deletions a user makes, in any interleaving,
\* the user never has more than 3 events that are active and end in the
\* future, and a step taken while the user has 3 of them creates no event
\* for that user
C12_AtMostThreeActive ==
    /\ [](\A u \in UserIds : Cardinality(ActiveFutureEvents(u)) <= MaxActiveEvents)
    /\ [][\A u \in UserIds :
            Cardinality(ActiveFutureEvents(u)) >= MaxActiveEvents => CreatedFor(u) = {}]_vars

\* a user who was at the limit deleted an event and created another, and is
\* at the limit again
C12_Witness ==
    \E u \in UserIds :
        /\ Cardinality(ActiveFutureEvents(u)) = MaxActiveEvents
        /\ \E e \in DOMAIN events : /\ events[e] # NoRow /\ events[e].creator_id = u
                                      /\ ~events[e].is_active

RsvpCount(event, status) ==
    Cardinality({i \in DOMAIN event.rsvps : event.rsvps[i].status = status})

\* C13: after any sequence of add_rsvp calls on an event, each user has at
\* most one RSVP entry, the entry of the user who answered last carries the
\* status just given, and attendee_count, maybe_count and declined_count are
\* the numbers of "yes", "maybe" and "no" entries
C13_OneRsvpPerUser ==
    /\ \A e \in DOMAIN events : events[e] # NoRow =>
          /\ \A u \in UserIds :
                Cardinality({i \in DOMAIN events[e].rsvps :
                                events[e].rsvps[i].user_id = u}) <= 1
          /\ events[e].attendee_count = RsvpCount(events[e], "yes")
          /\ events[e].maybe_count = RsvpCount(events[e], "maybe")
          /\ events[e].declined_count = RsvpCount(events[e], "no")
    /\ last.op = "rsvp_to_event" =>
          \E i \in DOMAIN events[last.id].rsvps :
              events[last.id].rsvps[i] = [user_id |-> last.user_id, status |-> last.status]

\* a user who had answered "maybe" has changed the answer, and another user
\* has answered too
C13_Witness ==
    /\ last.op = "rsvp_to_event"
    /\ Len(events[last.id].rsvps) = 2
    /\ \E i \in DOMAIN events[last.id].rsvps :
          /\ events[last.id].rsvps[i].user_id = 2
          /\ events[last.id].rsvps[i].status # "maybe"

\* the call that just returned is a user recommender's and it queried the index
UserQueried(call) ==
    /\ call.op \in {"recommend_friends", "recommend_events_to_user"}
    /\ call.queries # <<>>

C15_ReturnedUsersAreOpen ==
    last.op = "recommend_friends" =>
        \A i \in DOMAIN last.result :
            LET u == last.result[i].user_id IN
            /\ users[u] # NoRow
            /\ users[u].is_active
            /\ users[u].open_to_friends

\* recommend_friends returned somebody although the index gave it, among
\* the candidates it looked at, a user who is deactivated or no longer open
C15_Witness ==
    /\ last.op = "recommend_friends" /\ last.result # <<>>
    /\ \E i \in 1..Min(last.limit, Len(last.retrieved)) :
          LET u == last.retrieved[i].user_id IN
          ~(users[u].is_active /\ users[u].open_to_friends)

\* the event is active, public and not expired
Recommendable(e) ==
    /\ events[e] # NoRow /\ events[e].is_active
    /\ events[e].visibility = "public" /\ now <= events[e].expires_at

\* the user's RSVP to the event is "no"
Declined(e, u) ==
    \E i \in DOMAIN events[e].rsvps :
        events[e].rsvps[i].user_id = u /\ events[e].rsvps[i].status = "no"

\* C16: no event returned by recommend_events_to_user(u) is inactive,
\* non-public, expired or declined by u, and no event returned by
\* recommend_events_to_group is inactive, non-public or expired
C16_NoUnwantedEvent ==
    /\ last.op = "recommend_events_to_user" =>
          \A i \in DOMAIN last.result :
              /\ Recommendable(last.result[i].event_id)
              /\ ~Declined(last.result[i].event_id, last.id)
    /\ last.op = "recommend_events_to_group" =>
          \A i \in DOMAIN last.result : Recommendable(last.result[i].event_id)

\* C17 as stated: every event returned by recommend_events_to_user(u)
\* satisfies can_rsvp(u)
C17_CanRsvpGates ==
    last.op = "recommend_events_to_user" =>
        \A i \in DOMAIN last.result :
            can_rsvp(events[last.result[i].event_id], last.id)

\* C17, amended: every event returned by recommend_events_to_user(u) is
\* active, public and not expired, and its can_rsvp field is the value of
\* can_rsvp(u) at the time of the call, which may be false
C17_CanRsvpReported ==
    last.op = "recommend_events_to_user" =>
        \A i \in DOMAIN last.result :
            LET e == last.result[i].event_id IN
            /\ events[e] # NoRow /\ events[e].is_active
            /\ events[e].visibility = "public" /\ now <= events[e].expires_at
            /\ last.result[i].can_rsvp = can_rsvp(events[e], last.id)

\* an event was recommended to a user who cannot RSVP to it
C17_Witness ==
    /\ last.op = "recommend_events_to_user"
    /\ \E i \in DOMAIN last.result : ~last.result[i].can_rsvp

\* C18: for an event with max_attendees set, attendee_count never exceeds
\* max_attendees after any sequence of admitted RSVP requests
C18_CapNeverExceeded ==
    \A e \in DOMAIN events :
        (events[e] # NoRow /\ events[e].max_attendees # 0) =>
            events[e].attendee_count <= events[e].max_attendees

\* C19: when the index write of an upsert fails, the writer (registration,
\* profile update, event creation, sweep, embed-on-miss) keeps the committed
\* record with the new vector, stamped now, and completes without raising
C19_IndexFailureKeepsRecord ==
    /\ (last.op \in Writers /\ "outcome" \in DOMAIN last /\ last.outcome = "store_only") =>
          /\ RowsOf(last.op)[last.id] # <<>>
          /\ Head(RowsOf(last.op)[last.id]) =
                [embedding |-> last.embedding, last_updated |-> now]
    /\ (RecCall /\ "index_write" \in last.faults) =>
          /\ last.outcome = "returned"
          /\ user_embeddings[last.id] # <<>>
          /\ Head(user_embeddings[last.id]).last_updated = now

\* a writer completed after its index write failed and the index has no
\* entry for the entity
C19_Witness ==
    /\ last.op \in Writers /\ "outcome" \in DOMAIN last /\ last.outcome = "store_only"
    /\ {x \in CollectionOf(last.op) : x.id = last.id} = {}

\* the entity has a committed embedding record and no index entry
Unindexed(rows, collection, id) ==
    rows[id] # <<>> /\ {x \in collection : x.id = id} = {}

\* C20: an active entity that has a record and no index entry is written to
\* the index by a later refresh cycle: an active event in that state is
\* among the events the event sweep lists, and the iteration of the user or
\* group sweep that visits such an entity once its record is older than 24
\* hours decides to refresh it
C20_UnindexedIsRefreshed ==
    /\ \A e \in DOMAIN events :
          (events[e] # NoRow /\ events[e].is_active
              /\ Unindexed(event_embeddings, events_collection, e)) =>
              e \in events_without_embeddings
    /\ (last.op \in {"update_user_embeddings", "update_group_embeddings"}
          /\ "needs_update" \in DOMAIN last
          /\ Unindexed(RowsOf(last.op), CollectionOf(last.op), last.id)
          /\ now - Head(RowsOf(last.op)[last.id]).last_updated > TTLHours) =>
              last.needs_update = "yes"

CleanupRan == last.op = "cleanup_expired_embeddings"

\* C21: after cleanup_expired_embeddings has processed the record of an
\* inactive entity and committed, the record is gone, whether or not the
\* index delete succeeded, and the index entry is gone when it did
C21_DurableDeleteSurvivesIndexFailure ==
    (CleanupRan /\ last.fault # "commit") =>
        /\ \A u \in last.users :
              /\ user_embeddings[u] = <<>>
              /\ last.fault # "index_users" => {x \in users_collection : x.id = u} = {}
        /\ \A e \in last.events :
              /\ event_embeddings[e] = <<>>
              /\ last.fault # "index_events" => {x \in events_collection : x.id = e} = {}
        /\ \A g \in last.groups :
              /\ group_embeddings[g] = <<>>
              /\ last.fault # "index_groups" => {x \in groups_collection : x.id = g} = {}

\* the cleanup processed the record of an inactive user while the index
\* deletes failed: the record is gone and the index entry is still there
C21_Witness ==
    /\ CleanupRan /\ last.fault = "index_users"
    /\ \E u \in last.users :
          user_embeddings[u] = <<>> /\ {x \in users_collection : x.id = u} # {}

\* the entities the cleanup listed whose embedding record is still stored
StillStored ==
    [users  |-> {u \in last.users : user_embeddings[u] # <<>>},
     events |-> {e \in last.events : event_embeddings[e] # <<>>},
     groups |-> {g \in last.groups : group_embeddings[g] # <<>>}]

\* C22: a failure while a sweep processes one entity neither stops the sweep
\* nor undoes what it did for the other entities; for the cleanup sweep: after
\* a failure at most one of the records it listed is still stored
C22_SweepIsolatesFailures ==
    (CleanupRan /\ last.fault # "none") =>
        Cardinality(StillStored.users) + Cardinality(StillStored.events)
            + Cardinality(StillStored.groups) <= 1

\* nothing is stored or indexed for the entity
Forgotten(rows, collection, id) ==
    rows[id] = <<>> /\ {x \in collection : x.id = id} = {}

\* C23: after a cleanup sweep that completes without failure, no embedding
\* record and no index entry is left for a user, group or event that is
\* inactive or whose row has been deleted
C23_NothingLeftForInactive ==
    (CleanupRan /\ last.fault = "none") =>
        /\ \A u \in UserIds : (users[u] = NoRow \/ ~users[u].is_active) =>
              Forgotten(user_embeddings, users_collection, u)
        /\ \A e \in DOMAIN events : (events[e] = NoRow \/ ~events[e].is_active) =>
              Forgotten(event_embeddings, events_collection, e)
        /\ \A g \in GroupIds : ~groups[g].is_active =>
              Forgotten(group_embeddings, groups_collection, g)

\* the user is active and the embedding record is missing or older than 24
\* hours
NeedsRefresh(u) ==
    /\ users[u] # NoRow /\ users[u].is_active
    /\ \/ user_embeddings[u] = <<>>
       \/ now - Head(user_embeddings[u]).last_updated > TTLHours

\* C24: while the server runs, every active user whose embedding record is
\* missing or stale eventually has it recomputed, without any
\* recommendation request
C24_StaleEventuallyRecomputed ==
    \A u \in UserIds : NeedsRefresh(u) ~> ~NeedsRefresh(u)

\* C25: whether a recommender has a query vector depends on the durable
\* record alone: a call that queries the index has a record for its
\* requester, and a group call that meets no failure, has a record and has
\* events to choose from does query the index
C25_QueryVectorFromStore ==
    /\ UserQueried(last) => user_embeddings[last.id] # <<>>
    /\ last.op = "recommend_events_to_group" =>
          /\ last.queries # <<>> => group_embeddings[last.id] # <<>>
          /\ (/\ last.faults = {}
               /\ group_embeddings[last.id] # <<>>
               /\ \E e \in DOMAIN events :
                     /\ events[e] # NoRow /\ events[e].is_active
                     /\ events[e].visibility = "public" /\ now <= events[e].expires_at)
              => last.queries # <<>>

\* the step begins, resumes or completes a recommendation call
RecStep ==
    \/ last'.op \in RecOps
    \/ \E s \in Slots : /\ inflight'[s] # inflight[s]
                         /\ inflight'[s].op \in RecOps

\* the requester whose record a step of a user recommender may write
Requester ==
    IF last'.op \in {"recommend_friends", "recommend_events_to_user"}
    THEN {last'.id} ELSE {}

\* C26: a recommendation call changes no user, friendship, friend request,
\* group or event row and no event or group embedding; it changes no other
\* user's embedding record or index entry; and it writes nothing when the
\* requester already has an embedding record
C26_RecommendationFrame ==
    [][RecStep =>
          /\ UNCHANGED <<users, friendships, friend_requests, events, groups,
                         event_embeddings, events_collection, group_embeddings,
                         groups_collection>>
          /\ \A u \in UserIds \ Requester :
                /\ user_embeddings'[u] = user_embeddings[u]
                /\ {x \in users_collection' : x.id = u} =
                       {x \in users_collection : x.id = u}
          /\ \A u \in Requester : user_embeddings[u] # <<>> =>
                UNCHANGED <<user_embeddings, users_collection>>]_vars

\* the only request so far is a user recommender's, and the requester's
\* record and index entry hold a vector the embedder gave during the call
C26_Witness ==
    /\ served = 1
    /\ last.op \in {"recommend_friends", "recommend_events_to_user"}
    /\ user_embeddings[last.id] = <<[embedding |-> 4, last_updated |-> now]>>
    /\ [id |-> last.id, embedding |-> 4] \in users_collection

\* C27: the embed-on-miss write of a recommendation request never fails
\* because another writer wrote the same user's record first: no call ends
\* empty on the uniqueness violation of its own insert
C27_NoConflictOnMiss ==
    last.op \in {"recommend_friends", "recommend_events_to_user"} =>
        "integrity_error" \notin last.faults

\* C28: a user with whom the requester has a FriendRequest row, in either
\* direction and in any status, is never in the list recommend_friends
\* returns, also after the friendship the request led to was removed
C28_RequestedNeverRecommended ==
    last.op = "recommend_friends" =>
        \A i \in DOMAIN last.result :
            last.result[i].user_id \notin RequestOthers(last.id)

\* C29: every recommender call has closed its database session when it
\* returns, on the normal path, on each early return with an empty list and
\* on the exception path
C29_SessionClosedOnReturn == RecCall => last.db_closed

SamePair(a, b, c, d) == (a = c /\ b = d) \/ (a = d /\ b = c)

PendingRequests == {r \in friend_requests : r.status = "pending"}

\* the friend tables are well formed: one Friendship row per pair, stored
\* with user1_id < user2_id; one pending request per pair; none between
\* friends; none to oneself
FriendTablesWellFormed ==
    /\ \A f \in friendships : f.user1_id < f.user2_id
    /\ \A f, g \in friendships :
          SamePair(f.user1_id, f.user2_id, g.user1_id, g.user2_id) => f = g
    /\ \A r, q \in PendingRequests :
          SamePair(r.sender_id, r.recipient_id, q.sender_id, q.recipient_id) => r = q
    /\ \A r \in PendingRequests : \A f \in friendships :
          ~SamePair(r.sender_id, r.recipient_id, f.user1_id, f.user2_id)
    /\ \A r \in friend_requests : r.sender_id # r.recipient_id

\* a request row stays, and its status changes only from pending to accepted
\* or declined, in a respond_to_friend_request of its recipient
RequestStatusStep ==
    \A r \in friend_requests :
        \/ r \in friend_requests'
        \/ /\ r.status = "pending"
           /\ \E a \in {"accept", "decline"} :
                /\ respond_to_friend_request(r.recipient_id, r.id, a)
                /\ [r EXCEPT !.status = IF a = "accept" THEN "accepted" ELSE "declined"]
                       \in friend_requests'

\* C30: after any sequence of send_friend_request, respond_to_friend_request
\* and remove_friend requests there is at most one Friendship row per pair of
\* users, stored with user1_id < user2_id, at most one pending request per
\* pair, no pending request between friends and no request to oneself, and a
\* request leaves pending only by its recipient's accept or decline, once
C30_FriendTablesConsistent == []FriendTablesWellFormed /\ [][RequestStatusStep]_vars

\* a pair that became friends a second time, by a request sent the other way
\* after the first friendship was removed
C30_Witness ==
    \E f \in friendships : \E r, q \in friend_requests :
        /\ r.status = "accepted" /\ q.status = "accepted"
        /\ r.sender_id = f.user1_id /\ r.recipient_id = f.user2_id
        /\ q.sender_id = f.user2_id /\ q.recipient_id = f.user1_id

====
